---------------------------- MODULE Spec2Model ----------------------------
(***************************************************************************)
(* A model of pdf_extractor.py: the resume pipeline                        *)
(*   transcription -> check_multiple_resumes -> split_resumes ->           *)
(*   process_single_resume (per segment) -> process_multiple_files,        *)
(* and the aggregation convert_md_to_json -> json_to_csv.                  *)
(*                                                                         *)
(* Text is a sequence of one-character strings, so that str(), ';'.join    *)
(* and str.replace are computed character by character.  A JSON value is   *)
(* a record [t, s, n, l, o]: t is the type tag, s the characters of a      *)
(* string, n a number (or 1/0 for true/false), l the elements of a list    *)
(* and o the <<key, value>> pairs of an object in insertion order, as a    *)
(* Python dict keeps them.                                                 *)
(***************************************************************************)
EXTENDS Integers, Sequences, FiniteSets, TLC

\* Most input files in one batch.
MaxFiles == 2

\* Most segments the splitting call returns, and largest resume_count.
MaxSegs == 2

\* Most json_to_csv calls on one destination.
MaxCalls == 3

VARIABLES
    pc,              \* position of the run
    pdf_files,       \* process_multiple_files: the globbed list of inputs
    file_idx,        \* process_multiple_files: position of the for loop
    results,         \* process_multiple_files: file -> list of records
    caught,          \* files whose processing ended in process_pdf_file's except
    extracted_text,  \* process_pdf_file locals, live until it returns
    det_response,    \*   check_multiple_resumes: response
    check_result,
    split_result,    \*   split_resumes: what the splitting call did
    resume_texts,
    pdf_results,     \*   the list `results` of process_pdf_file
    idx,
    ext_response,    \*   process_single_resume: response of the last segment
    exc,             \*   where the exception caught at the file boundary rose
    file_results,    \*   the value process_pdf_file returns
    md_artifacts,    \* files whose markdown artifact is in output_dir
    md_files,        \* main: the globbed markdown files
    md_idx,          \* main: position of the for loop over md_files
    csv,             \* parsed_resumes.csv: [exists, rows]
    calls,           \* the json_content of every json_to_csv call so far
    outcome          \* how the last json_to_csv call ended

vars == <<pc, pdf_files, file_idx, results, caught, extracted_text,
          det_response, check_result, split_result, resume_texts,
          pdf_results, idx, ext_response, exc, file_results, md_artifacts,
          md_files, md_idx, csv, calls, outcome>>

pdf_locals == <<extracted_text, det_response, check_result, split_result,
                resume_texts, pdf_results, idx, ext_response, exc,
                file_results>>

csv_vars == <<csv, calls, outcome>>

md_vars == <<md_files, md_idx>>

-----------------------------------------------------------------------------
(* JSON values as json.loads builds them *)

JNull == [t |-> "null", s |-> <<>>, n |-> 0, l |-> <<>>, o |-> <<>>]

JStr(x) == [t |-> "str", s |-> x, n |-> 0, l |-> <<>>, o |-> <<>>]

JNum(k) == [t |-> "num", s |-> <<>>, n |-> k, l |-> <<>>, o |-> <<>>]

JBool(b) == [t |-> "bool", s |-> <<>>, n |-> IF b THEN 1 ELSE 0, l |-> <<>>, o |-> <<>>]

JList(xs) == [t |-> "list", s |-> <<>>, n |-> 0, l |-> xs, o |-> <<>>]

JObj(pairs) == [t |-> "obj", s |-> <<>>, n |-> 0, l |-> <<>>, o |-> pairs]

\* {}
EmptyMap == JObj(<<>>)

\* bool(v)
Truthy(v) ==
    CASE v.t = "null" -> FALSE
      [] v.t = "str"  -> v.s # <<>>
      [] v.t = "num"  -> v.n # 0
      [] v.t = "bool" -> v.n = 1
      [] v.t = "list" -> v.l # <<>>
      [] OTHER        -> v.o # <<>>

HasKey(d, k) == \E i \in 1..Len(d.o) : d.o[i][1] = k

\* d.get(k, default)
Get(d, k, default) ==
    IF HasKey(d, k)
    THEN d.o[CHOOSE i \in 1..Len(d.o) : d.o[i][1] = k][2]
    ELSE default

\* d[k] = v
SetItem(d, k, v) ==
    IF HasKey(d, k)
    THEN JObj([i \in 1..Len(d.o) |-> IF d.o[i][1] = k THEN <<k, v>> ELSE d.o[i]])
    ELSE JObj(Append(d.o, <<k, v>>))

-----------------------------------------------------------------------------
(* Text *)

K_multiple_resumes ==
    <<"m","u","l","t","i","p","l","e","_","r","e","s","u","m","e","s">>

K_resume_count == <<"r","e","s","u","m","e","_","c","o","u","n","t">>

K_resume_index == <<"r","e","s","u","m","e","_","i","n","d","e","x">>

K_name == <<"n","a","m","e">>

K_email == <<"e","m","a","i","l">>

K_mobile == <<"m","o","b","i","l","e">>

K_experience == <<"e","x","p","e","r","i","e","n","c","e">>

K_skills == <<"s","k","i","l","l","s">>

DigitChar(d) == <<"0","1","2","3","4","5","6","7","8","9">>[d + 1]

RECURSIVE Digits(_)
Digits(k) ==
    IF k < 10 THEN <<DigitChar(k)>>
    ELSE Digits(k \div 10) \o <<DigitChar(k % 10)>>

\* sep.join(parts)
RECURSIVE Join(_, _)
Join(sep, parts) ==
    IF parts = <<>> THEN <<>>
    ELSE IF Len(parts) = 1 THEN parts[1]
    ELSE parts[1] \o sep \o Join(sep, Tail(parts))

\* repr(v)
RECURSIVE Repr(_)
Repr(v) ==
    CASE v.t = "null" -> <<"N","o","n","e">>
      [] v.t = "str"  -> <<"'">> \o v.s \o <<"'">>
      [] v.t = "num"  -> Digits(v.n)
      [] v.t = "bool" -> IF v.n = 1 THEN <<"T","r","u","e">>
                         ELSE <<"F","a","l","s","e">>
      [] v.t = "list" ->
            <<"[">> \o Join(<<",", " ">>, [i \in 1..Len(v.l) |-> Repr(v.l[i])])
                    \o <<"]">>
      [] OTHER ->
            <<"{">> \o Join(<<",", " ">>,
                            [i \in 1..Len(v.o) |->
                                <<"'">> \o v.o[i][1] \o <<"'", ":", " ">>
                                        \o Repr(v.o[i][2])])
                    \o <<"}">>

\* str(v)
Str(v) == IF v.t = "str" THEN v.s ELSE Repr(v)

\* s.replace('\n', ' ')
ReplaceNewlines(s) == [i \in 1..Len(s) |-> IF s[i] = "\n" THEN " " ELSE s[i]]

-----------------------------------------------------------------------------
(* A model call: it raises, or answers with text that json.loads rejects   *)
(* ("invalid") or parses to `value` ("json").                              *)

NoResponse == [kind |-> "none", value |-> JNull]

Raises == [kind |-> "raise", value |-> JNull]

NotJson == [kind |-> "invalid", value |-> JNull]

Json(v) == [kind |-> "json", value |-> v]

\* What a function call does: exc names the exception that leaves it.
Ret(v) == [exc |-> "none", ret |-> v]

Raise(e) == [exc |-> e, ret |-> JNull]

-----------------------------------------------------------------------------
(* The transcription, the Detector, the Splitter and the Field Extractor *)

\* The text the transcription returns for a file, and a part of a text.
NoText == [doc |-> 0, part |-> 0]

Text(f) == [doc |-> f, part |-> 0]

Parts(text, k) == [i \in 1..k |-> [doc |-> text.doc, part |-> i]]

\* {"multiple_resumes": mr, "resume_count": rc}
Detection(mr, rc) ==
    JObj(<<<<K_multiple_resumes, JBool(mr)>>, <<K_resume_count, JNum(rc)>>>>)

\* The except JSONDecodeError clause left out: the parse failure leaves the
\* function.
check_multiple_resumes_no_default(response) ==
    CASE response.kind = "raise"   -> Raise("detector_call")
      [] response.kind = "invalid" -> Raise("detector_call")
      [] OTHER                     -> Ret(response.value)

check_multiple_resumes(response) ==
    CASE response.kind = "raise"   -> Raise("detector_call")
      [] response.kind = "invalid" -> Ret(Detection(FALSE, 1))
      [] OTHER                     -> Ret(response.value)

\* What the splitting call does: it raises, returns something that is no
\* list, or returns a list.
NoSplit == [kind |-> "none", parts |-> <<>>]

SplitRaises == [kind |-> "raise", parts |-> <<>>]

SplitNonList == [kind |-> "nonlist", parts |-> <<>>]

SplitList(ps) == [kind |-> "list", parts |-> ps]

split_resumes(text, split) ==
    IF split.kind = "list" THEN split.parts ELSE <<text>>

\* The return {} of the except JSONDecodeError clause left out: the function
\* returns None there.
process_single_resume_no_default(response) ==
    CASE response.kind = "raise"   -> EmptyMap
      [] response.kind = "invalid" -> JNull
      [] OTHER                     -> response.value

process_single_resume(response) ==
    CASE response.kind = "raise"   -> EmptyMap
      [] response.kind = "invalid" -> EmptyMap
      [] OTHER                     -> response.value

\* The branch taken on resume_count > 1 instead.
NeedsSplit_by_count(check) == Get(check, K_resume_count, JNum(1)).n > 1

\* check_result.get("multiple_resumes", False), as the if reads it
NeedsSplit(check) == Truthy(Get(check, K_multiple_resumes, JBool(FALSE)))

\* result["resume_index"] = idx
AttachIndex(result, i) ==
    IF result.t = "obj" THEN Ret(SetItem(result, K_resume_index, JNum(i)))
    ELSE Raise("record_assign")

(* The answers the services are given to choose from *)

DetectorResponses ==
    <<Raises, NotJson, Json(JList(<<>>)), Json(EmptyMap),
      Json(JObj(<<<<K_multiple_resumes, JBool(TRUE)>>>>)),
      Json(Detection(FALSE, 1)), Json(Detection(FALSE, 2))>>
    \o [k \in 1..MaxSegs |-> Json(Detection(TRUE, k))]

SplitOutcomes(text) ==
    <<SplitRaises, SplitNonList>>
    \o [k \in 1..(MaxSegs + 1) |-> SplitList(Parts(text, k - 1))]

ExtractorResponses ==
    <<Raises, NotJson, Json(EmptyMap),
      Json(JObj(<<<<K_name, JStr(<<"A","n","n">>)>>>>)),
      Json(JList(<<>>))>>

-----------------------------------------------------------------------------
(* process_pdf_file, one action per awaited call, and the loop of          *)
(* process_multiple_files around it                                        *)

pdf_file == pdf_files[file_idx]

\* No except at the file boundary: the exception leaves
\* process_multiple_files.
Except_propagates(site) ==
    /\ exc' = site
    /\ file_results' = file_results
    /\ pc' = "aborted"

\* except Exception: return [{}]
Except(site) ==
    /\ exc' = site
    /\ file_results' = <<EmptyMap>>
    /\ pc' = "return"

\* for idx, resume_text in enumerate(resume_texts, 1), entered
EnterLoop(texts) ==
    /\ resume_texts' = texts
    /\ pdf_results' = <<>>
    /\ IF texts = <<>>
       THEN /\ pc' = "return"
            /\ file_results' = <<>>
            /\ idx' = 0
       ELSE /\ pc' = "extract"
            /\ idx' = 1
            /\ UNCHANGED file_results
    /\ UNCHANGED exc

Transcribe(ok) ==
    /\ pc = "transcribe"
    /\ IF ok
       THEN /\ extracted_text' = Text(pdf_file)
            /\ md_artifacts' = md_artifacts \cup {pdf_file}
            /\ pc' = "detect"
            /\ UNCHANGED <<exc, file_results>>
       ELSE /\ Except("transcribe")
            /\ UNCHANGED <<extracted_text, md_artifacts>>
    /\ UNCHANGED <<pdf_files, file_idx, results, caught, det_response,
                   check_result, split_result, resume_texts, pdf_results,
                   idx, ext_response, md_vars, csv_vars>>

Detect(response) ==
    /\ pc = "detect"
    /\ det_response' = response
    /\ LET r == check_multiple_resumes(response) IN
       IF r.exc # "none"
       THEN /\ Except(r.exc)
            /\ UNCHANGED <<check_result, resume_texts, pdf_results, idx>>
       ELSE /\ check_result' = r.ret
            /\ IF r.ret.t # "obj"
               THEN /\ Except("detector_get")
                    /\ UNCHANGED <<resume_texts, pdf_results, idx>>
               ELSE IF NeedsSplit(r.ret)
               THEN /\ pc' = "split"
                    /\ UNCHANGED <<resume_texts, pdf_results, idx, exc,
                                   file_results>>
               ELSE EnterLoop(<<extracted_text>>)
    /\ UNCHANGED <<pdf_files, file_idx, results, caught, extracted_text,
                   split_result, ext_response, md_artifacts, md_vars,
                   csv_vars>>

Split(split) ==
    /\ pc = "split"
    /\ split_result' = split
    /\ EnterLoop(split_resumes(extracted_text, split))
    /\ UNCHANGED <<pdf_files, file_idx, results, caught, extracted_text,
                   det_response, check_result, ext_response, md_artifacts,
                   md_vars, csv_vars>>

Extract(response) ==
    /\ pc = "extract"
    /\ ext_response' = response
    /\ LET r == AttachIndex(process_single_resume(response), idx) IN
       IF r.exc # "none"
       THEN /\ Except(r.exc)
            /\ UNCHANGED <<pdf_results, idx>>
       ELSE /\ pdf_results' = Append(pdf_results, r.ret)
            /\ UNCHANGED exc
            /\ IF idx = Len(resume_texts)
               THEN /\ file_results' = pdf_results'
                    /\ pc' = "return"
                    /\ UNCHANGED idx
               ELSE /\ idx' = idx + 1
                    /\ UNCHANGED <<pc, file_results>>
    /\ UNCHANGED <<pdf_files, file_idx, results, caught, extracted_text,
                   det_response, check_result, split_result, resume_texts,
                   md_artifacts, md_vars, csv_vars>>

\* process_pdf_file returns; results[pdf_file] = file_results; next file
ReturnFile ==
    /\ pc = "return"
    /\ results' = (pdf_file :> file_results) @@ results
    /\ caught' = IF exc # "none" THEN caught \cup {pdf_file} ELSE caught
    /\ file_idx' = file_idx + 1
    /\ pc' = IF file_idx < Len(pdf_files) THEN "transcribe" ELSE "returned"
    /\ extracted_text' = NoText
    /\ det_response' = NoResponse
    /\ check_result' = JNull
    /\ split_result' = NoSplit
    /\ resume_texts' = <<>>
    /\ pdf_results' = <<>>
    /\ idx' = 0
    /\ ext_response' = NoResponse
    /\ exc' = "none"
    /\ file_results' = <<>>
    /\ UNCHANGED <<pdf_files, md_artifacts, md_vars, csv_vars>>

Init ==
    /\ \E n \in 0..MaxFiles : pdf_files = [i \in 1..n |-> i]
    /\ file_idx = 1
    /\ pc = IF pdf_files = <<>> THEN "returned" ELSE "transcribe"
    /\ results = [f \in {} |-> <<>>]
    /\ caught = {}
    /\ extracted_text = NoText
    /\ det_response = NoResponse
    /\ check_result = JNull
    /\ split_result = NoSplit
    /\ resume_texts = <<>>
    /\ pdf_results = <<>>
    /\ idx = 0
    /\ ext_response = NoResponse
    /\ exc = "none"
    /\ file_results = <<>>
    /\ md_artifacts = {}
    /\ md_files = <<>>
    /\ md_idx = 0
    /\ csv = [exists |-> FALSE, rows |-> <<>>]
    /\ calls = <<>>
    /\ outcome = "none"

TranscribeStep == \E ok \in BOOLEAN : Transcribe(ok)

DetectStep == \E i \in 1..Len(DetectorResponses) : Detect(DetectorResponses[i])

SplitStep ==
    \E i \in 1..(MaxSegs + 3) : Split(SplitOutcomes(extracted_text)[i])

ExtractStep ==
    \E i \in 1..Len(ExtractorResponses) : Extract(ExtractorResponses[i])

Next == TranscribeStep \/ DetectStep \/ SplitStep \/ ExtractStep \/ ReturnFile

Spec == Init /\ [][Next]_vars

-----------------------------------------------------------------------------
(* json_to_csv: the table is the list of its rows, a row the list of its   *)
(* five cells                                                              *)

Header ==
    <<<<"N","a","m","e">>, <<"E","m","a","i","l">>,
      <<"M","o","b","i","l","e">>,
      <<"E","x","p","e","r","i","e","n","c","e">>,
      <<"S","k","i","l","l","s">>>>

\* The header written by every call.
file_exists_unchecked(c) == FALSE

\* csv_file.exists()
file_exists(c) == c.exists

\* open(csv_file, 'w')
OpenTruncate(c) == <<>>

\* open(csv_file, 'a'): the rows the writer appends to
OpenAppend(c) == c.rows

\* for x in v: the elements, or TypeError when v is not iterable
Iterate(v) ==
    CASE v.t = "list" -> [ok |-> TRUE, items |-> v.l]
      [] v.t = "obj"  -> [ok |-> TRUE,
                          items |-> [i \in 1..Len(v.o) |-> JStr(v.o[i][1])]]
      [] v.t = "str"  -> [ok |-> TRUE,
                          items |-> [i \in 1..Len(v.s) |-> JStr(<<v.s[i]>>)]]
      [] OTHER        -> [ok |-> FALSE, items |-> <<>>]

NotNone(x) == x.t # "null"

\* The `if skill is not None` filter left out.
skills_str_unfiltered(items) ==
    Join(<<";">>, [i \in 1..Len(items) |-> Str(items[i])])

\* ';'.join(str(skill) for skill in skills if skill is not None)
skills_str(items) ==
    LET kept == SelectSeq(items, NotNone)
    IN  Join(<<";">>, [i \in 1..Len(kept) |-> Str(kept[i])])

\* resume.get('experience', ''), made one line
experience_str(resume) ==
    LET experience == Get(resume, K_experience, JStr(<<>>))
    IN  IF experience.t # "null" THEN ReplaceNewlines(Str(experience))
        ELSE <<>>

\* str(resume.get(key, '') or '')
Cell(resume, key) ==
    LET v == Get(resume, key, JStr(<<>>))
    IN  IF Truthy(v) THEN Str(v) ELSE <<>>

\* The body of the for loop: the row written for one element, or the
\* exception that ends the call before it is written.
BuildRow(resume) ==
    IF resume.t # "obj" THEN [ok |-> FALSE, row |-> <<>>]
    ELSE
      LET got    == Get(resume, K_skills, JList(<<>>))
          skills == IF got.t = "null" THEN JList(<<>>) ELSE got
          it     == Iterate(skills)
      IN  IF ~it.ok THEN [ok |-> FALSE, row |-> <<>>]
          ELSE [ok  |-> TRUE,
                row |-> <<Cell(resume, K_name), Cell(resume, K_email),
                          Cell(resume, K_mobile), experience_str(resume),
                          skills_str(it.items)>>]

\* for resume in parsed_json: the elements whose rows are written
RECURSIVE Written(_)
Written(items) ==
    IF items = <<>> THEN <<>>
    ELSE IF ~BuildRow(items[1]).ok THEN <<>>
    ELSE <<items[1]>> \o Written(Tail(items))

\* writer.writerow(...) of every element written
DataRows(parsed_json) ==
    LET done == Written(Iterate(parsed_json).items)
    IN  [i \in 1..Len(done) |-> BuildRow(done[i]).row]

json_to_csv(c, json_content) ==
    IF json_content.kind # "json"
    THEN [csv |-> c, outcome |-> "json_error"]
    ELSE
      LET parsed_json == json_content.value
          header == IF ~file_exists(c) THEN <<Header>> ELSE <<>>
          it     == Iterate(parsed_json)
          rows   == DataRows(parsed_json)
      IN  [csv     |-> [exists |-> TRUE,
                        rows   |-> OpenAppend(c) \o header \o rows],
           outcome |-> IF it.ok /\ Len(rows) = Len(it.items) THEN "ok"
                       ELSE "row_error"]

(* The content json_to_csv is given to choose from *)

S_Ann == <<"A","n","n">>

S_Bob == <<"B","o","b">>

S_Mail == <<"a","@","x">>

S_Phone == <<"5","5","5">>

S_Python == <<"P","y","t","h","o","n">>

S_Go == <<"G","o">>

S_Years == <<"5","y","\n","A","c","m","e">>

Full ==
    JObj(<<<<K_name, JStr(S_Ann)>>, <<K_email, JStr(S_Mail)>>,
           <<K_mobile, JStr(S_Phone)>>, <<K_experience, JStr(S_Years)>>,
           <<K_skills, JList(<<JStr(S_Python), JNull, JStr(S_Go)>>)>>>>)

Nulls ==
    JObj(<<<<K_name, JNull>>, <<K_email, JStr(S_Mail)>>,
           <<K_mobile, JNull>>, <<K_skills, JNull>>>>)

Mixed ==
    JObj(<<<<K_name, JStr(S_Bob)>>, <<K_mobile, JNum(555)>>,
           <<K_experience, JNull>>,
           <<K_skills, JList(<<JStr(S_Go), JNum(7), JNull>>)>>>>)

BadSkills == JObj(<<<<K_name, JStr(S_Bob)>>, <<K_skills, JNum(5)>>>>)

TextSkills == JObj(<<<<K_email, JNull>>, <<K_skills, JStr(S_Go)>>>>)

JsonContents ==
    <<NotJson,
      Json(JList(<<>>)),
      Json(JList(<<Full>>)),
      Json(JList(<<Nulls, EmptyMap>>)),
      Json(JList(<<Mixed, BadSkills, Full>>)),
      Json(JList(<<Full, JNull>>)),
      Json(JList(<<TextSkills>>)),
      Json(JNum(3)),
      Json(Full)>>

\* One call of json_to_csv on the table.
JsonToCsv(json_content) ==
    LET r == json_to_csv(csv, json_content)
    IN  /\ csv' = r.csv
        /\ outcome' = r.outcome
        /\ calls' = Append(calls, json_content)

-----------------------------------------------------------------------------
(* main, after process_multiple_files returned: the markdown artifacts     *)
(* are globbed and convert_md_to_json runs on each                         *)

\* The elements of a set of file numbers, as glob lists them.
RECURSIVE Listed(_)
Listed(S) ==
    IF S = {} THEN <<>>
    ELSE LET m == CHOOSE x \in S : \A y \in S : x <= y
         IN  <<m>> \o Listed(S \ {m})

ListMdFiles ==
    /\ pc = "returned"
    /\ md_files' = Listed(md_artifacts)
    /\ IF md_artifacts = {}
       THEN pc' = "done" /\ md_idx' = 0
       ELSE pc' = "convert" /\ md_idx' = 1
    /\ UNCHANGED <<pdf_files, file_idx, results, caught, pdf_locals,
                   md_artifacts, csv_vars>>

\* convert_md_to_json: the model call raises, or its text goes to
\* json_to_csv
ConvertMdToJson(response) ==
    /\ pc = "convert"
    /\ IF response.kind = "raise" THEN UNCHANGED csv_vars
       ELSE JsonToCsv(response)
    /\ md_idx' = md_idx + 1
    /\ pc' = IF md_idx < Len(md_files) THEN "convert" ELSE "done"
    /\ UNCHANGED <<pdf_files, file_idx, results, caught, pdf_locals,
                   md_artifacts, md_files>>

ConvertStep ==
    \/ ConvertMdToJson(Raises)
    \/ \E i \in 1..Len(JsonContents) : ConvertMdToJson(JsonContents[i])

MainInit == Init /\ pdf_files # <<>>

MainNext == Next \/ ListMdFiles \/ ConvertStep

MainSpec == MainInit /\ [][MainNext]_vars

-----------------------------------------------------------------------------
(* json_to_csv called any number of times on a destination that does not   *)
(* exist at the start                                                      *)

CsvInit ==
    /\ pc = "csv"
    /\ pdf_files = <<>>
    /\ file_idx = 1
    /\ results = [f \in {} |-> <<>>]
    /\ caught = {}
    /\ extracted_text = NoText
    /\ det_response = NoResponse
    /\ check_result = JNull
    /\ split_result = NoSplit
    /\ resume_texts = <<>>
    /\ pdf_results = <<>>
    /\ idx = 0
    /\ ext_response = NoResponse
    /\ exc = "none"
    /\ file_results = <<>>
    /\ md_artifacts = {}
    /\ md_files = <<>>
    /\ md_idx = 0
    /\ csv = [exists |-> FALSE, rows |-> <<>>]
    /\ calls = <<>>
    /\ outcome = "none"

CallJsonToCsv ==
    /\ pc = "csv"
    /\ Len(calls) < MaxCalls
    /\ \E i \in 1..Len(JsonContents) : JsonToCsv(JsonContents[i])
    /\ UNCHANGED <<pc, pdf_files, file_idx, results, caught, pdf_locals,
                   md_artifacts, md_vars>>

CsvNext == CallJsonToCsv

CsvSpec == CsvInit /\ [][CsvNext]_vars

\* The run goes on while a step is enabled: each awaited call returns or
\* raises, and the one task resumes.
FairSpec == Spec /\ WF_vars(Next)

-----------------------------------------------------------------------------
(* Properties of the batch: process_multiple_files and process_pdf_file *)

Files == {pdf_files[i] : i \in 1..Len(pdf_files)}

OnlyIndex(i) == JObj(<<<<K_resume_index, JNum(i)>>>>)

Segmented == pc \in {"extract", "return"} /\ exc \in {"none", "record_assign"}

BatchCovered ==
    /\ DOMAIN results = {pdf_files[i] : i \in 1..(file_idx - 1)}
    /\ \A f \in caught : f \in DOMAIN results /\ results[f] = <<EmptyMap>>
    /\ pc = "returned" => DOMAIN results = Files

C2_AllSegmentsKept ==
    (pc = "return" /\ Len(resume_texts) >= 1) =>
        /\ Len(file_results) = Len(resume_texts)
        /\ \A i \in 1..Len(file_results) :
              Get(file_results[i], K_resume_index, JNull) = JNum(i)

\* C3: the number of segments is the Detector's resume_count when it
\* reported multiple resumes, and 1 otherwise; it is never 0.
C3_SegmentCount ==
    Segmented =>
        /\ Len(resume_texts) >= 1
        /\ ~NeedsSplit(check_result) => Len(resume_texts) = 1
        /\ (NeedsSplit(check_result) /\ HasKey(check_result, K_resume_count))
              => Len(resume_texts) = Get(check_result, K_resume_count, JNull).n

\* C7: the segment whose answer is not JSON gets a record that holds
\* resume_index alone, equal to the segment's position, and the file goes on.
C7_EmptyRecord ==
    ext_response.kind = "invalid" =>
        /\ process_single_resume(ext_response) = EmptyMap
        /\ pc \in {"extract", "return"}
        /\ exc = "none"
        /\ Len(pdf_results) >= 1
        /\ pdf_results[Len(pdf_results)] = OnlyIndex(Len(pdf_results))
        /\ pc = "extract" => idx = Len(pdf_results) + 1
        /\ pc = "return" => file_results = pdf_results

C7_Witness ==
    /\ ext_response.kind = "invalid"
    /\ pc = "return"
    /\ Len(file_results) = 2
    /\ HasKey(file_results[1], K_name)
    /\ file_results[2] = OnlyIndex(2)

\* C8: a Detector answer that is not JSON gives {multiple_resumes: false,
\* resume_count: 1}, nothing is raised, and the file is one segment.
C8_DetectorDefault ==
    det_response.kind = "invalid" =>
        /\ check_result = Detection(FALSE, 1)
        /\ exc \notin {"detector_call", "detector_get"}
        /\ pc \in {"extract", "return"}
        /\ split_result = NoSplit
        /\ resume_texts = <<extracted_text>>

C8_Witness ==
    /\ det_response.kind = "invalid"
    /\ pc = "return"
    /\ exc = "none"
    /\ Len(file_results) = 1

\* C9: when the Detector returns multiple_resumes = false the splitting call
\* is not made and the one segment is the whole transcribed text.
C9_NoSplit ==
    (/\ check_result.t = "obj"
     /\ Get(check_result, K_multiple_resumes, JNull) = JBool(FALSE)) =>
        /\ pc \in {"extract", "return"}
        /\ split_result = NoSplit
        /\ resume_texts = <<extracted_text>>
        /\ extracted_text = Text(pdf_file)

C9_Witness ==
    /\ check_result = Detection(FALSE, 2)
    /\ pc = "extract"
    /\ resume_texts = <<Text(pdf_file)>>

-----------------------------------------------------------------------------
(* Properties of the table *)

RECURSIVE TotalRecords(_)
TotalRecords(fs) ==
    IF fs = {} THEN 0
    ELSE LET f == CHOOSE x \in fs : TRUE
         IN  Len(results[f]) + TotalRecords(fs \ {f})

\* C4: after a complete run the table is one header row and one data row
\* per candidate record of the results mapping.
C4_OneRowPerRecord ==
    pc = "done" =>
        /\ csv.exists
        /\ csv.rows # <<>>
        /\ csv.rows[1] = Header
        /\ Len(csv.rows) = 1 + TotalRecords(DOMAIN results)

IsPrefix(a, b) == Len(a) <= Len(b) /\ SubSeq(b, 1, Len(a)) = a

\* The data rows of the calls cs, batch after batch in call order.
RECURSIVE Batches(_)
Batches(cs) ==
    IF cs = <<>> THEN <<>>
    ELSE (IF cs[1].kind = "json" THEN DataRows(cs[1].value) ELSE <<>>)
         \o Batches(Tail(cs))

Appended == \E i \in 1..Len(calls) : calls[i].kind = "json"

\* C5: on a destination that did not exist at the start, the file, which
\* exists once a call got as far as opening it, is one header row, first,
\* followed by the data rows of the calls in call order; no later call
\* writes the header again.
C5_OneHeader ==
    /\ csv.exists <=> Appended
    /\ ~csv.exists => csv.rows = <<>>
    /\ csv.exists =>
          /\ csv.rows = <<Header>> \o Batches(calls)
          /\ {i \in 1..Len(csv.rows) : csv.rows[i] = Header} = {1}

C5_Witness ==
    /\ Len(calls) = 2
    /\ Len(DataRows(calls[1].value)) = 2
    /\ Len(DataRows(calls[2].value)) = 1
    /\ Len(csv.rows) = 4

\* C6: every json_to_csv call, failing or not, leaves the rows already in
\* the table as they were, a prefix of the table after it; a call that fails
\* at JSON parsing changes nothing and creates no file; no call raises.
C6_PriorRowsKept ==
    [][calls' # calls =>
          /\ IsPrefix(csv.rows, csv'.rows)
          /\ csv.exists => csv'.exists
          /\ outcome' \in {"ok", "json_error", "row_error"}
          /\ calls'[Len(calls')].kind = "invalid" =>
                csv' = csv /\ outcome' = "json_error"]_vars

C6_Witness ==
    /\ Len(calls) = 3
    /\ calls[2] = JsonContents[5]
    /\ calls[3].kind = "invalid"
    /\ outcome = "json_error"
    /\ Len(csv.rows) = 3

\* The elements the calls cs wrote a row for, in order.
RECURSIVE Aggregated(_)
Aggregated(cs) ==
    IF cs = <<>> THEN <<>>
    ELSE (IF cs[1].kind = "json" THEN Written(Iterate(cs[1].value).items)
          ELSE <<>>)
         \o Aggregated(Tail(cs))

\* The ';'-join of the stringified non-null elements, built from the end.
RECURSIVE SemicolonJoined(_)
SemicolonJoined(elems) ==
    LET kept == SelectSeq(elems, LAMBDA e : e # JNull)
        last == kept[Len(kept)]
    IN  IF kept = <<>> THEN <<>>
        ELSE IF Len(kept) = 1 THEN Str(last)
        ELSE SemicolonJoined(SubSeq(kept, 1, Len(kept) - 1))
             \o <<";">> \o Str(last)

MissingOrNull(c, key) == ~HasKey(c, key) \/ Get(c, key, JNull) = JNull

NullSafeRow(c, row) ==
    /\ MissingOrNull(c, K_skills) => row[5] = <<>>
    /\ (HasKey(c, K_skills) /\ Get(c, K_skills, JNull).t = "list")
          => row[5] = SemicolonJoined(Get(c, K_skills, JNull).l)
    /\ MissingOrNull(c, K_name) => row[1] = <<>>
    /\ MissingOrNull(c, K_email) => row[2] = <<>>
    /\ MissingOrNull(c, K_mobile) => row[3] = <<>>
    /\ \A k \in 1..3 : row[k] \notin {<<"n","u","l","l">>, <<"N","o","n","e">>}

\* C10: in the row of every aggregated candidate the Skills cell is the
\* ';'-join of the stringified non-null skills in order, empty when skills
\* is null or absent, and Name, Email and Mobile are empty when the field
\* is missing or null.
C10_NullSafeCells ==
    LET cands == Aggregated(calls)
    IN  /\ Len(csv.rows) = (IF csv.exists THEN 1 ELSE 0) + Len(cands)
        /\ \A k \in 1..Len(cands) : NullSafeRow(cands[k], csv.rows[k + 1])

C10_Witness ==
    /\ Len(calls) = 2
    /\ calls[1] = JsonContents[3]
    /\ calls[2] = JsonContents[4]
    /\ csv.rows[2][5] = S_Python \o <<";">> \o S_Go
    /\ csv.rows[3] = <<<<>>, S_Mail, <<>>, <<>>, <<>>>>
    /\ csv.rows[4] = <<<<>>, <<>>, <<>>, <<>>, <<>>>>

=============================================================================
